---- MODULE Spec2Model ----
(***************************************************************************)
(* Model of the flashcard algorithm functions of src/src/algorithm.ts:     *)
(* toBucketSets, getBucketRange, practice, update and computeProgress.     *)
(*                                                                         *)
(* A JavaScript Set is an object with identity, so the model keeps a heap  *)
(* of Set objects (reference -> contents).  A BucketMap maps bucket        *)
(* numbers to references, and an Array<Set<Flashcard>> maps indices to     *)
(* references, so aliasing between the map and the array is visible.       *)
(* history is the caller's array of review records and ret the outcome of  *)
(* the last call.                                                          *)
(***************************************************************************)
EXTENDS Integers, FiniteSets, Sequences, TLC

VARIABLES heap, buckets, dense, history, ret

vars == <<heap, buckets, dense, history, ret>>

----------------------------------------------------------------------------
(* Bounds of the model. *)

\* Flashcards are 1..NumCards.
NumCards == 2
\* Bucket numbers of the initial sparse maps are 0..MaxKey.
MaxKey == 3
\* Review histories have at most MaxHist records.
MaxHist == 2
\* Dense arrays given to practice / getBucketRange have at most MaxLen slots.
MaxLen == 33
\* Day numbers given to practice are -MaxNegDay..MaxDay.
MaxDay == 4
MaxNegDay == 1

Cards == 1..NumCards

----------------------------------------------------------------------------
(* Values of the program. *)

\* enum AnswerDifficulty: ordinals usable in arithmetic.
Hard == 0
Medium == 1
Easy == 2
AnswerDifficulty == {Hard, Medium, Easy}

\* `undefined`: an absent array slot, an absent result.  References are >= 1.
Undefined == 0
\* `null` in the place of a Flashcard.
NullCard == 0
\* No exception was thrown.
NoError == "none"

Max(a, b) == IF a >= b THEN a ELSE b
Min(a, b) == IF a <= b THEN a ELSE b

RECURSIVE SetMax(_)
SetMax(S) ==
  LET x == CHOOSE y \in S : TRUE
  IN  IF S = {x} THEN x ELSE Max(x, SetMax(S \ {x}))

Range(f) == {f[x] : x \in DOMAIN f}

\* `new Set()`: a reference not in use.
NewRef(used) == CHOOSE r \in 1..(Cardinality(used) + 1) : r \notin used

\* The Set objects a caller can still reach (the others are garbage).
Live(b, d) == Range(b) \cup (Range(d) \ {Undefined})
Collect(h, b, d) == [r \in (DOMAIN h) \cap Live(b, d) |-> h[r]]

----------------------------------------------------------------------------
(* update(buckets, card, difficulty) *)

\* The scan for the bucket that holds the card.  A Map iterates in insertion
\* order, which the model does not keep: any bucket that holds the card can be
\* the first one met.
Locate_AnyBucket(card) == DOMAIN buckets
Locate(card) == {k \in DOMAIN buckets : card \in heap[buckets[k]]}

\* The new bucket number.
NewBucket_NoFloor(currentBucket, difficulty, size) ==
  IF difficulty = Easy THEN Min(currentBucket + 1, size - 1)
  ELSE IF difficulty = Hard THEN currentBucket - 1
  ELSE currentBucket
NewBucket_NoCap(currentBucket, difficulty, size) ==
  IF difficulty = Easy THEN currentBucket + 1
  ELSE IF difficulty = Hard THEN Max(currentBucket - 1, 0)
  ELSE currentBucket
NewBucket(currentBucket, difficulty, size) ==
  IF difficulty = Easy THEN Min(currentBucket + 1, size - 1)
  ELSE IF difficulty = Hard THEN Max(currentBucket - 1, 0)
  ELSE currentBucket

\* buckets.get(bucket)?.delete(card)
DeleteCard_Skip(h, b, bucket, card) == h
DeleteCard(h, b, bucket, card) ==
  IF bucket \in DOMAIN b THEN [h EXCEPT ![b[bucket]] = @ \ {card}] ELSE h

\* if (!buckets.has(bucket)) buckets.set(bucket, new Set()): the map and the
\* heap afterwards.
EnsureBucket(h, b, bucket) ==
  IF bucket \in DOMAIN b
  THEN [map |-> b, heap |-> h]
  ELSE LET fresh == NewRef(DOMAIN h)
       IN  [map  |-> [k \in (DOMAIN b) \cup {bucket} |->
                        IF k = bucket THEN fresh ELSE b[k]],
            heap |-> [r \in (DOMAIN h) \cup {fresh} |->
                        IF r = fresh THEN {} ELSE h[r]]]

\* buckets.get(bucket)?.add(card)
AddCard_Replace(h, b, bucket, card) ==
  IF bucket \in DOMAIN b THEN [h EXCEPT ![b[bucket]] = {card}] ELSE h
AddCard(h, b, bucket, card) ==
  IF bucket \in DOMAIN b THEN [h EXCEPT ![b[bucket]] = @ \cup {card}] ELSE h

Update(card, difficulty) ==
  /\ UNCHANGED <<dense, history>>
  /\ IF Locate(card) = {}
     THEN /\ ret' = [op |-> "update", card |-> card, difficulty |-> difficulty,
                     error |-> "Card not found"]
          /\ UNCHANGED <<heap, buckets>>
     ELSE \E currentBucket \in Locate(card) :
            LET newBucket == NewBucket(currentBucket, difficulty,
                                       Cardinality(DOMAIN buckets))
                heap1     == DeleteCard(heap, buckets, currentBucket, card)
                made      == EnsureBucket(heap1, buckets, newBucket)
            IN  /\ buckets' = made.map
                /\ heap' = AddCard(made.heap, made.map, newBucket, card)
                /\ ret' = [op |-> "update", card |-> card,
                           difficulty |-> difficulty, error |-> NoError,
                           currentBucket |-> currentBucket,
                           newBucket |-> newBucket]

----------------------------------------------------------------------------
(* toBucketSets(buckets) *)

\* Math.max(...buckets.keys(), -1) + 1: the length of the array.
ArrayLength_Size(keys) == Cardinality(keys)
ArrayLength(keys) == SetMax(keys \cup {-1}) + 1

RECURSIVE FreshRefs(_, _)
\* n references not in use, all different.
FreshRefs(used, n) ==
  IF n = 0 THEN <<>>
  ELSE LET r == NewRef(used) IN <<r>> \o FreshRefs(used \cup {r}, n - 1)

\* Array.from({ length }, () => new Set()): one new Set per slot.
NewSets_Shared(used, length) == [i \in 0..(length - 1) |-> NewRef(used)]
NewSets(used, length) ==
  LET refs == FreshRefs(used, length)
  IN  [i \in 0..(length - 1) |-> refs[i + 1]]

\* array[index] = value; a store past the end grows the array and leaves the
\* slots in between absent.
ArrayStore(array, index, value) ==
  LET length == Cardinality(DOMAIN array)
  IN  [i \in 0..(Max(length, index + 1) - 1) |->
         IF i = index THEN value
         ELSE IF i < length THEN array[i] ELSE Undefined]

RECURSIVE StoreEntries(_, _, _)
\* for (const [bucket, flashcards] of buckets.entries()) array[bucket] = flashcards
StoreEntries(array, b, keys) ==
  IF keys = {} THEN array
  ELSE LET k == CHOOSE x \in keys : TRUE
       IN  StoreEntries(ArrayStore(array, k, b[k]), b, keys \ {k})

ToBucketSets ==
  LET length      == ArrayLength(DOMAIN buckets)
      empty       == NewSets(DOMAIN heap, length)
      bucketArray == StoreEntries(empty, buckets, DOMAIN buckets)
      heap1       == [r \in (DOMAIN heap) \cup Range(empty) |->
                        IF r \in DOMAIN heap THEN heap[r] ELSE {}]
  IN  /\ dense' = bucketArray
      /\ heap' = Collect(heap1, buckets, bucketArray)
      /\ UNCHANGED <<buckets, history>>
      /\ ret' = [op |-> "toBucketSets"]

\* A caller of toBucketSets adds a card to the Set in one slot of the array it
\* was given: array[index].add(card).
SlotAdd(index, card) ==
  /\ ret.op = "toBucketSets"
  /\ index \in DOMAIN dense
  /\ dense[index] # Undefined
  /\ heap' = [heap EXCEPT ![dense[index]] = @ \cup {card}]
  /\ ret' = [op |-> "slotAdd", index |-> index, card |-> card]
  /\ UNCHANGED <<buckets, dense, history>>

----------------------------------------------------------------------------
(* getBucketRange(buckets) *)

\* if (set.size > 0), in a callback that forEach does not call for an absent slot.
Counts_AnySet(array, h, i) == array[i] # Undefined
Counts(array, h, i) == array[i] # Undefined /\ Cardinality(h[array[i]]) > 0

RECURSIVE RangeScan(_, _, _, _)
\* buckets.forEach((set, index) => ...) from index i on.  acc.seen stands for
\* isFinite(min).
RangeScan(array, h, i, acc) ==
  IF i >= Cardinality(DOMAIN array) THEN acc
  ELSE IF Counts(array, h, i)
       THEN RangeScan(array, h, i + 1,
                      [seen |-> TRUE,
                       min  |-> IF acc.seen THEN Min(acc.min, i) ELSE i,
                       max  |-> IF acc.seen THEN Max(acc.max, i) ELSE i])
       ELSE RangeScan(array, h, i + 1, acc)

GetBucketRange ==
  LET acc == RangeScan(dense, heap, 0, [seen |-> FALSE, min |-> 0, max |-> 0])
  IN  /\ ret' = IF acc.seen
                THEN [op |-> "getBucketRange", defined |-> TRUE,
                      minBucket |-> acc.min, maxBucket |-> acc.max]
                ELSE [op |-> "getBucketRange", defined |-> FALSE]
      /\ UNCHANGED <<heap, buckets, dense, history>>

----------------------------------------------------------------------------
(* practice(buckets, day) *)

\* The least 32-bit signed integer.
Int32Min == -2147483647 - 1

\* 1 << i on 32-bit integers: the shift count is taken modulo 32 and bit 31 is
\* the sign.
ShiftLeftOne(i) ==
  LET count == i % 32
  IN  IF count = 31 THEN Int32Min ELSE 2^count

\* a % b for a >= 0: the remainder of the truncated division, with the sign of a.
\* Every a that TLC can hold is below 2^31, so a % -2^31 is a.
Remainder(a, b) ==
  IF b = Int32Min THEN a
  ELSE IF b < 0 THEN a % (0 - b) ELSE a % b

\* if (day < 0) throw
DayRejected_Zero(day) == day <= 0
DayRejected(day) == day < 0

\* The indices practice takes the cards of.
Due(array, day) ==
  {i \in DOMAIN array :
     array[i] # Undefined /\ Remainder(day, ShiftLeftOne(i)) = 0}

Practice(day) ==
  /\ IF DayRejected(day)
     THEN ret' = [op |-> "practice", day |-> day,
                  error |-> "Day number must be non-negative"]
     ELSE ret' = [op |-> "practice", day |-> day, error |-> NoError,
                  value |-> UNION {heap[dense[i]] : i \in Due(dense, day)}]
  /\ UNCHANGED <<heap, buckets, dense, history>>

----------------------------------------------------------------------------
(* computeProgress(buckets, history) *)

\* [...buckets.keys()].every(k => Number.isInteger(k) && k >= 0)
ValidKeys(keys) == \A k \in keys : k >= 0

\* history.some(record => !record.card || ...): difficulty and timestamp are
\* drawn well-typed, the card may be null.
InvalidHistory(records) ==
  \E i \in 1..Len(records) : records[i].card = NullCard

\* history.filter(h => h.difficulty === AnswerDifficulty.Easy).length
CorrectAttempts_NotHard(records) ==
  Cardinality({i \in 1..Len(records) : records[i].difficulty # Hard})
CorrectAttempts(records) ==
  Len(SelectSeq(records, LAMBDA h : h.difficulty = Easy))

RECURSIVE TotalDifficulty(_)
\* history.reduce((sum, h) => sum + h.difficulty, 0)
TotalDifficulty(records) ==
  IF records = <<>> THEN 0
  ELSE records[1].difficulty + TotalDifficulty(Tail(records))

\* buckets.forEach((cards, bucket) => bucketDistribution[bucket] = cards.size)
BucketDistribution(b, h) == [k \in DOMAIN b |-> Cardinality(h[b[k]])]

\* a / b as the fraction it is.
Quotient(a, b) == [num |-> a, den |-> b]

ComputeProgress ==
  /\ IF ~ValidKeys(DOMAIN buckets)
     THEN ret' = [op |-> "computeProgress",
                  error |-> "Invalid bucket keys: must be non-negative integers."]
     ELSE IF InvalidHistory(history)
     THEN ret' = [op |-> "computeProgress",
                  error |-> "Invalid history data."]
     ELSE LET totalAttempts   == Len(history)
              correctAttempts == CorrectAttempts(history)
          IN  ret' = [op |-> "computeProgress",
                      error |-> NoError,
                      accuracyRate |->
                        IF totalAttempts > 0
                        THEN Quotient(correctAttempts, totalAttempts)
                        ELSE Quotient(0, 1),
                      bucketDistribution |-> BucketDistribution(buckets, heap),
                      hasAverage |-> totalAttempts > 0,
                      averageDifficulty |->
                        IF totalAttempts > 0
                        THEN Quotient(TotalDifficulty(history), totalAttempts)
                        ELSE Quotient(0, 1)]
  /\ UNCHANGED <<heap, buckets, dense, history>>

----------------------------------------------------------------------------
(* The sparse-map machine: a caller holds a BucketMap and calls update. *)

\* The maps with keys in lowest..MaxKey and each card in at most one bucket.
InitMap(lowest) ==
  \E K \in SUBSET (lowest..MaxKey) :
    \E place \in [Cards -> K \cup {MaxKey + 1}] :
      /\ buckets = [k \in K |-> k + 2]
      /\ heap = [r \in {k + 2 : k \in K} |-> {c \in Cards : place[c] = r - 2}]

Init ==
  /\ InitMap(0)
  /\ dense = <<>>
  /\ history = <<>>
  /\ ret = [op |-> "init"]

Next ==
  \/ \E card \in Cards, difficulty \in AnswerDifficulty : Update(card, difficulty)

Spec == Init /\ [][Next]_vars

\* The same machine started from a map whose keys are exactly 0..n-1, n >= 1.
InitContiguous ==
  /\ Init
  /\ \E n \in 1..(MaxKey + 1) : DOMAIN buckets = 0..(n - 1)

SpecContiguous == InitContiguous /\ [][Next]_vars

----------------------------------------------------------------------------
(* The conversion machine: a caller converts its BucketMap to an array, may *)
(* add a card to a slot of the array, and asks for the range.               *)

NextConvert ==
  \/ ToBucketSets
  \/ \E index \in 0..MaxKey, card \in Cards : SlotAdd(index, card)
  \/ GetBucketRange

SpecConvert == Init /\ [][NextConvert]_vars

----------------------------------------------------------------------------
(* The practice machine: a caller holds an array of buckets and calls       *)
(* practice with any day.  The array ends with its highest occupied bucket  *)
(* (or has any length when no bucket is occupied), each card is in at most  *)
(* one bucket, and the unoccupied slots are all empty Sets or all absent.   *)

InitPractice ==
  /\ buckets = <<>>
  /\ history = <<>>
  /\ ret = [op |-> "init"]
  /\ \E place \in [Cards -> 0..MaxLen], holes \in BOOLEAN :
       LET used == {place[c] : c \in Cards} \ {MaxLen}
       IN  \E length \in (IF used = {} THEN 0..MaxLen ELSE {SetMax(used) + 1}) :
             /\ dense = [i \in 0..(length - 1) |->
                           IF holes /\ i \notin used THEN Undefined ELSE i + 1]
             /\ heap = [r \in {i + 1 : i \in {j \in 0..(length - 1) :
                                               ~holes \/ j \in used}} |->
                          {c \in Cards : place[c] = r - 1}]

NextPractice ==
  \/ \E day \in (0 - MaxNegDay)..MaxDay : Practice(day)

SpecPractice == InitPractice /\ [][NextPractice]_vars

----------------------------------------------------------------------------
(* The statistics machine: a caller holds a BucketMap and calls             *)
(* computeProgress with its history of review records.                      *)

HistoryRecords ==
  [card : {NullCard, 1}, difficulty : AnswerDifficulty, timestamp : {1}]

Histories == UNION {[1..n -> HistoryRecords] : n \in 0..MaxHist}

NextProgress ==
  \/ ComputeProgress

\* A caller may hold a map with a negative key, and any history.
InitProgress ==
  /\ InitMap(-1)
  /\ dense = <<>>
  /\ history \in Histories
  /\ ret = [op |-> "init"]

SpecProgress == InitProgress /\ [][NextProgress]_vars

----------------------------------------------------------------------------
(* Properties of update. *)

\* The bucket numbers whose set holds the card.
Holding(c) == {k \in DOMAIN buckets : c \in heap[buckets[k]]}

\* The contents of every bucket of the map.
Contents == [k \in DOMAIN buckets |-> heap[buckets[k]]]

\* The highest bucket number present in the map.
LastBucket == SetMax(DOMAIN buckets)

\* C1: on a sparse map where the card sits in exactly one bucket b, update with
\* Easy leaves the card in bucket b+1 when b is below the highest bucket number
\* of the map, and in bucket b when b is that highest bucket number.
C1_EasyMovesUpToLastBucket ==
  [][\A c \in Cards, b \in 0..MaxKey :
       (/\ ret'.op = "update" /\ ret'.card = c /\ ret'.difficulty = Easy
        /\ Holding(c) = {b})
       => Holding(c)' = {IF b < LastBucket THEN b + 1 ELSE b}]_vars

\* C2: on a sparse map where the card sits in exactly one bucket b, update with
\* Hard leaves the card in bucket b-1 when b > 0 (a key the map then has) and in
\* bucket 0 when b = 0; update with a rating other than Easy or Hard leaves the
\* card in bucket b and the contents of every bucket as they were.
C2_HardMovesDownOthersStay ==
  [][\A c \in Cards, b \in 0..MaxKey :
       (/\ ret'.op = "update" /\ ret'.card = c /\ Holding(c) = {b})
       => /\ (ret'.difficulty = Hard /\ b > 0) =>
               (b - 1 \in DOMAIN buckets' /\ Holding(c)' = {b - 1})
          /\ (ret'.difficulty = Hard /\ b = 0) => Holding(c)' = {0}
          /\ ret'.difficulty \notin {Easy, Hard} =>
               (Holding(c)' = {b} /\ Contents' = Contents)]_vars

C2_Witness ==
  /\ ret.op = "update" /\ ret.error = NoError /\ ret.difficulty = Hard
  /\ ret.currentBucket = 2
  /\ Holding(ret.card) = {1}
  /\ heap[buckets[2]] = {}

\* C3: from a sparse map where every item is in at most one bucket, after any
\* sequence of update calls every item is still in at most one bucket, and an
\* item that is in a bucket stays in exactly one bucket.
C3_OneBucketPerItem ==
  /\ [](\A c \in Cards : Cardinality(Holding(c)) <= 1)
  /\ [][\A c \in Cards :
          Cardinality(Holding(c)) = 1 => Cardinality(Holding(c)') = 1]_vars

C3_Witness ==
  /\ ret.op = "update" /\ ret.error = NoError
  /\ ret.newBucket # ret.currentBucket
  /\ Holding(ret.card) = {ret.newBucket}
  /\ \E c \in Cards : c # ret.card /\ Cardinality(Holding(c)) = 1

\* C4: when the card is in no bucket of the map (the empty map included),
\* update fails with 'Card not found' for every difficulty and leaves the map
\* as it was: same keys, same sets with the same contents.
C4_NotFoundLeavesMap ==
  [][\A c \in Cards :
       (ret'.op = "update" /\ ret'.card = c /\ Holding(c) = {})
       => /\ ret'.error = "Card not found"
          /\ buckets' = buckets
          /\ heap' = heap]_vars

C4_Witness ==
  /\ ret.op = "update" /\ ret.error = "Card not found"
  /\ DOMAIN buckets # {}
  /\ Holding(ret.card) = {}

----------------------------------------------------------------------------
(* Properties of practice. *)

RECURSIVE MultipleOfPow2(_, _)
\* d mod 2^i = 0, for d >= 0, on the integers.
MultipleOfPow2(d, i) ==
  IF i = 0 THEN TRUE ELSE d % 2 = 0 /\ MultipleOfPow2(d \div 2, i - 1)

\* The indices of the array that hold a set.
SetSlots == {i \in DOMAIN dense : dense[i] # Undefined}

\* C5: for every dense array and every day d >= 0, practice returns exactly the
\* union of the buckets whose index i satisfies d mod 2^i = 0, for every index
\* (31, 32 and above included); bucket 0 is part of it on every day.
C5_DueOnMultiplesOfPow2 ==
  (ret.op = "practice" /\ ret.day >= 0 /\ ret.error = NoError)
  => /\ ret.value =
          UNION {heap[dense[i]] : i \in {j \in SetSlots : MultipleOfPow2(ret.day, j)}}
     /\ 0 \in SetSlots => heap[dense[0]] \subseteq ret.value

\* C6: practice fails with its invalid-input error for every negative day,
\* whatever the array (the empty array included), and does not fail for any
\* day >= 0.
C6_NegativeDayRejected ==
  ret.op = "practice"
  => /\ ret.day < 0 => ret.error = "Day number must be non-negative"
     /\ ret.day >= 0 => ret.error = NoError

C6_Witness ==
  /\ ret.op = "practice" /\ ret.day < 0
  /\ ret.error = "Day number must be non-negative"
  /\ \E i \in SetSlots : heap[dense[i]] # {}

----------------------------------------------------------------------------
(* Properties of toBucketSets and getBucketRange. *)

\* The contents of slot i of the array.
SlotContents(i) == heap[dense[i]]

\* The map rebuilt from the non-empty slots of the array.
Rebuilt ==
  [i \in {j \in SetSlots : SlotContents(j) # {}} |-> SlotContents(i)]

\* The non-empty buckets of the map.
NonEmptyBuckets ==
  [k \in {j \in DOMAIN buckets : Contents[j] # {}} |-> Contents[k]]

\* C7: toBucketSets returns an array of length (largest key + 1), of length 0
\* for the empty map, whose slot i holds the items of bucket i when key i is in
\* the map and an empty set, never an absent slot, when it is not; the map
\* rebuilt from the non-empty slots has the non-empty buckets of the map.
C7_DenseMatchesMap ==
  ret.op = "toBucketSets"
  => /\ DOMAIN dense =
          IF DOMAIN buckets = {} THEN {} ELSE 0..LastBucket
     /\ \A i \in DOMAIN dense :
          /\ dense[i] # Undefined
          /\ SlotContents(i) = IF i \in DOMAIN buckets THEN Contents[i] ELSE {}
     /\ Rebuilt = NonEmptyBuckets

C7_Witness ==
  /\ ret.op = "toBucketSets"
  /\ DOMAIN buckets = {1, 3}
  /\ Contents[1] = {} /\ Contents[3] # {}
  /\ DOMAIN dense = 0..3
  /\ SlotContents(0) = {} /\ SlotContents(2) = {}

\* C8: toBucketSets leaves its input map as it was (same keys, same sets, same
\* contents), and adding an item to one slot of the returned array that was
\* made for an absent bucket number changes no other slot of the array and no
\* set of the map.
C8_InputKeptSlotsOwned ==
  [][/\ ret'.op = "toBucketSets" => (buckets' = buckets /\ Contents' = Contents)
     /\ (ret'.op = "slotAdd" /\ ret'.index \notin DOMAIN buckets)
        => /\ \A j \in SetSlots \ {ret'.index} : SlotContents(j)' = SlotContents(j)
           /\ buckets' = buckets
           /\ Contents' = Contents]_vars

C8_Witness ==
  /\ ret.op = "slotAdd"
  /\ ret.index \notin DOMAIN buckets
  /\ SlotContents(ret.index) = {ret.card}
  /\ \E j \in SetSlots \ {ret.index} :
       j \notin DOMAIN buckets /\ SlotContents(j) = {}
  /\ \A k \in DOMAIN buckets : ret.card \notin Contents[k]

\* The indices of the array whose set is not empty.
Occupied == {i \in SetSlots : SlotContents(i) # {}}

\* C9: getBucketRange returns the lowest and the highest index whose set is
\* not empty, and the absent result exactly when no index has a non-empty set;
\* with one occupied index k it returns {k, k}; minBucket <= maxBucket.
C9_RangeOfOccupied ==
  ret.op = "getBucketRange"
  => /\ ret.defined <=> Occupied # {}
     /\ ret.defined =>
          /\ ret.minBucket \in Occupied /\ ret.maxBucket \in Occupied
          /\ \A i \in Occupied : ret.minBucket <= i /\ i <= ret.maxBucket
          /\ ret.minBucket <= ret.maxBucket
          /\ \A k \in DOMAIN dense :
               Occupied = {k} => (ret.minBucket = k /\ ret.maxBucket = k)

C9_Witness ==
  /\ ret.op = "getBucketRange" /\ ret.defined
  /\ ret.minBucket = 1 /\ ret.maxBucket = 3
  /\ Occupied = {1, 3}
  /\ DOMAIN dense = 0..3

----------------------------------------------------------------------------
(* Properties of computeProgress. *)

\* The records of the history rated Easy.
EasyRecords == {i \in DOMAIN history : history[i].difficulty = Easy}

\* Every record has a card.
WellFormed == \A i \in DOMAIN history : history[i].card # NullCard

\* C10: for a map with non-negative keys and a well-formed history,
\* computeProgress returns accuracyRate = (Easy-rated records) / (records),
\* exactly 0 for the empty history; bucketDistribution with one entry per key of
\* the map, the size of that bucket's set (0 for an empty set, no entry for an
\* absent key); and averageDifficulty absent for the empty history.
C10_ProgressStatistics ==
  (/\ ret.op = "computeProgress"
   /\ \A k \in DOMAIN buckets : k >= 0
   /\ WellFormed)
  => /\ ret.error = NoError
     /\ ret.accuracyRate.den > 0
     /\ ret.accuracyRate.num * Len(history) =
          Cardinality(EasyRecords) * ret.accuracyRate.den
     /\ history = <<>> => ret.accuracyRate.num = 0
     /\ DOMAIN ret.bucketDistribution = DOMAIN buckets
     /\ \A k \in DOMAIN buckets :
          ret.bucketDistribution[k] = Cardinality(Contents[k])
     /\ history = <<>> => ~ret.hasAverage

C10_Witness ==
  /\ ret.op = "computeProgress" /\ ret.error = NoError
  /\ Len(history) = 2
  /\ Cardinality(EasyRecords) = 1
  /\ ret.accuracyRate = [num |-> 1, den |-> 2]
  /\ DOMAIN buckets = {0, 2}
  /\ ret.bucketDistribution = (0 :> 0 @@ 2 :> 2)

----------------------------------------------------------------------------
(* Frame of update, and update on maps without gaps. *)

Size == Cardinality(DOMAIN buckets)

\* C12: from a map whose keys are exactly 0..n-1 (n >= 1), after any sequence
\* of update calls the key set is still the same 0..n-1 (no bucket is created
\* or removed), every card of the map is in a bucket within 0..n-1, and each
\* Easy update of a card in bucket b leaves it in bucket min(b+1, n-1), so k of
\* them in a row leave it in min(b+k, n-1).
C12_ContiguousKeysKept ==
  /\ [](/\ Size >= 1
        /\ DOMAIN buckets = 0..(Size - 1)
        /\ \A c \in Cards : Holding(c) \subseteq 0..(Size - 1))
  /\ [][/\ DOMAIN buckets' = DOMAIN buckets
        /\ \A c \in Cards, b \in 0..MaxKey :
             (/\ ret'.op = "update" /\ ret'.card = c /\ ret'.difficulty = Easy
              /\ Holding(c) = {b})
             => Holding(c)' = {IF b + 1 <= Size - 1 THEN b + 1 ELSE Size - 1}]_vars

C12_Witness ==
  /\ ret.op = "update" /\ ret.error = NoError /\ ret.difficulty = Easy
  /\ DOMAIN buckets = 0..2
  /\ ret.currentBucket = 2
  /\ Holding(ret.card) = {2}

====
